---- MODULE Spec2Model ----
(***************************************************************************)
(* Model of the try_more crate (src/src/lib.rs): the BoolFlow extension    *)
(* trait, which converts a bool into a core::ops::ControlFlow, and of the  *)
(* enclosing functions of the crate's tests, which apply the `?` operator  *)
(* to the converted value and then run further statements.                 *)
(***************************************************************************)
EXTENDS Integers, FiniteSets, Sequences, TLC

\* Payloads of type T are the integers 1..MaxVal.
MaxVal == 3
\* Largest number of producer invocations a behaviour may make.
MaxCount == 3

\* The unit value `()`; it is distinct from every payload in Values.
Unit == 0
Values == 1..MaxVal
Payloads == Values \cup {Unit}

\* core::ops::ControlFlow<B, ()>: the two variants and the values they carry.
Break(v) == [tag |-> "Break", val |-> v]
Continue(u) == [tag |-> "Continue", val |-> u]
ControlFlow == {Break(v) : v \in Payloads} \cup {Continue(Unit)}

OpNames == {"break", "break_with", "break_lazy",
            "continue", "continue_or", "continue_or_else"}

\* A producer closure `|| { counter += 1; v }` passed as `impl FnOnce() -> T`,
\* as a function of the captured counter: called with the counter at c, it
\* leaves the counter at c + 1 and yields v.
Producer(v) ==
    [c \in 0..(MaxCount + 1) |-> [counter |-> c + 1, value |-> v]]

(***************************************************************************)
(* impl BoolFlow for bool.  The lazy operations take the closure f and the *)
(* current value c of the counter it captures, and return the outcome with *)
(* the counter as the call leaves it.                                      *)
(***************************************************************************)
break_mut_inverted(self) ==
    IF self THEN Continue(Unit) ELSE Break(Unit)

break(self) ==
    IF self THEN Break(Unit) ELSE Continue(Unit)

break_with_mut_swapped(self, value) ==
    IF self THEN Continue(Unit) ELSE Break(value)

break_with_mut_payload_dependent(self, value) ==
    IF self /\ value # 1 THEN Break(value) ELSE Continue(Unit)

break_with(self, value) ==
    IF self THEN Break(value) ELSE Continue(Unit)

break_lazy_mut_swapped(self, f, c) ==
    IF self THEN [flow |-> Continue(Unit), counter |-> c]
            ELSE LET r == f[c]
                 IN  [flow |-> Break(r.value), counter |-> r.counter]

break_lazy_mut_eager(self, f, c) ==
    LET r == f[c]
    IN  IF self THEN [flow |-> Break(r.value), counter |-> r.counter]
                ELSE [flow |-> Continue(Unit), counter |-> r.counter]

break_lazy(self, f, c) ==
    IF self THEN LET r == f[c]
                 IN  [flow |-> Break(r.value), counter |-> r.counter]
            ELSE [flow |-> Continue(Unit), counter |-> c]

continue_mut_inverted(self) ==
    IF self THEN Break(Unit) ELSE Continue(Unit)

continue(self) ==
    IF self THEN Continue(Unit) ELSE Break(Unit)

continue_or_mut_swapped(self, value) ==
    IF self THEN Break(value) ELSE Continue(Unit)

continue_or(self, value) ==
    IF self THEN Continue(Unit) ELSE Break(value)

continue_or_else_mut_eager(self, f, c) ==
    LET r == f[c]
    IN  IF self THEN [flow |-> Continue(Unit), counter |-> r.counter]
                ELSE [flow |-> Break(r.value), counter |-> r.counter]

continue_or_else_mut_twice(self, f, c) ==
    IF self THEN [flow |-> Continue(Unit), counter |-> c]
            ELSE LET r == f[f[c].counter]
                 IN  [flow |-> Break(r.value), counter |-> r.counter]

continue_or_else(self, f, c) ==
    IF self THEN [flow |-> Continue(Unit), counter |-> c]
            ELSE LET r == f[c]
                 IN  [flow |-> Break(r.value), counter |-> r.counter]

(***************************************************************************)
(* State.  An enclosing function evaluates one conversion (pc = "try"),    *)
(* applies `?` to its outcome, and either returns it (pc = "done") or goes *)
(* on to its remaining statements (pc = "rest"), which set `continued` and *)
(* yield `tail`.                                                           *)
(***************************************************************************)
VARIABLES
    pc,         \* "idle", "try", "rest" or "done"
    op,         \* the conversion the enclosing function calls
    cond,       \* the bool receiver
    arg,        \* the payload passed, or the value the producer yields
    flow,       \* the ControlFlow the conversion returned
    counter,    \* the counter the producer captures
    before,     \* the counter when the conversion was called
    tail,       \* what the statements after the guard yield
    continued,  \* set by the statements after the guard
    ret,        \* the enclosing function's return value
    prev        \* op, cond, arg and variant of the call before this one

vars == <<pc, op, cond, arg, flow, counter, before, tail, continued, ret, prev>>

None == [tag |-> "None", val |-> Unit]
NoCall == [op |-> "none", cond |-> FALSE, arg |-> Unit, tag |-> "None"]

Init ==
    /\ pc = "idle"
    /\ op = "none"
    /\ cond = FALSE
    /\ arg = Unit
    /\ flow = None
    /\ counter = 0
    /\ before = 0
    /\ tail = None
    /\ continued = FALSE
    /\ ret = None
    /\ prev = NoCall

\* Entry of an enclosing function: `let mut continued = false`, then the
\* conversion o is called on b and returns f, leaving the counter at c.
Enter(o, b, v, f, c, t) ==
    /\ pc \in {"idle", "done"}
    /\ pc' = "try"
    /\ op' = o
    /\ cond' = b
    /\ arg' = v
    /\ flow' = f
    /\ before' = counter
    /\ counter' = c
    /\ tail' = t
    /\ continued' = FALSE
    /\ ret' = None
    /\ prev' = [op |-> op, cond |-> cond, arg |-> arg, tag |-> flow.tag]

Call_break ==
    \E b \in BOOLEAN, t \in ControlFlow :
        Enter("break", b, Unit, break(b), counter, t)

Call_break_with ==
    \E b \in BOOLEAN, v \in Values, t \in ControlFlow :
        Enter("break_with", b, v, break_with(b, v), counter, t)

Call_break_lazy ==
    \E b \in BOOLEAN, v \in Values, t \in ControlFlow :
        LET r == break_lazy(b, Producer(v), counter)
        IN  /\ r.counter <= MaxCount
            /\ Enter("break_lazy", b, v, r.flow, r.counter, t)

Call_continue ==
    \E b \in BOOLEAN, t \in ControlFlow :
        Enter("continue", b, Unit, continue(b), counter, t)

Call_continue_or ==
    \E b \in BOOLEAN, v \in Values, t \in ControlFlow :
        Enter("continue_or", b, v, continue_or(b, v), counter, t)

Call_continue_or_else ==
    \E b \in BOOLEAN, v \in Values, t \in ControlFlow :
        LET r == continue_or_else(b, Producer(v), counter)
        IN  /\ r.counter <= MaxCount
            /\ Enter("continue_or_else", b, v, r.flow, r.counter, t)

\* The `?` operator on a ControlFlow: Break returns from the enclosing
\* function with that Break, Continue goes on to the next statement.
Try_mut_ignores_break ==
    /\ pc = "try"
    /\ pc' = "rest"
    /\ UNCHANGED <<op, cond, arg, flow, counter, before, tail, continued,
                   ret, prev>>

Try ==
    /\ pc = "try"
    /\ IF flow.tag = "Break"
          THEN /\ pc' = "done"
               /\ ret' = flow
          ELSE /\ pc' = "rest"
               /\ ret' = ret
    /\ UNCHANGED <<op, cond, arg, flow, counter, before, tail, continued, prev>>

\* The statements after the guard: `*continued = true;` and the tail
\* expression, whose value the function returns.
Rest ==
    /\ pc = "rest"
    /\ pc' = "done"
    /\ continued' = TRUE
    /\ ret' = tail
    /\ UNCHANGED <<op, cond, arg, flow, counter, before, tail, prev>>

Next ==
    \/ Call_break
    \/ Call_break_with
    \/ Call_break_lazy
    \/ Call_continue
    \/ Call_continue_or
    \/ Call_continue_or_else
    \/ Try
    \/ Rest

Spec == Init /\ [][Next]_vars

TypeOK ==
    /\ pc \in {"idle", "try", "rest", "done"}
    /\ op \in OpNames \cup {"none"}
    /\ cond \in BOOLEAN
    /\ arg \in Payloads
    /\ flow \in ControlFlow \cup {None}
    /\ counter \in 0..MaxCount
    /\ before \in 0..MaxCount
    /\ tail \in ControlFlow \cup {None}
    /\ continued \in BOOLEAN
    /\ ret \in ControlFlow \cup {None}

\* The call the state records has returned: its outcome is in `flow`.
Called(o) == op = o /\ pc # "idle"

\* The call before this one was of o on receiver b and returned variant t.
Earlier(o, b, t) == prev.op = o /\ prev.cond = b /\ prev.tag = t

\* C1: break(b) returns Break(()) when b is true and Continue(()) when b is
\* false; the outcome is Break(()) if and only if b is true.
C1_break ==
    Called("break") =>
        /\ flow = (IF cond THEN Break(Unit) ELSE Continue(Unit))
        /\ (flow = Break(Unit)) <=> cond

C1_witness ==
    /\ Called("break") /\ cond /\ flow = Break(Unit)
    /\ Earlier("break", FALSE, "Continue")

\* C2: continue(b) returns Continue(()) when b is true and Break(()) when b
\* is false; the outcome is Continue(()) if and only if b is true.
C2_continue ==
    Called("continue") =>
        /\ flow = (IF cond THEN Continue(Unit) ELSE Break(Unit))
        /\ (flow = Continue(Unit)) <=> cond

C2_witness ==
    /\ Called("continue") /\ ~cond /\ flow = Break(Unit)
    /\ Earlier("continue", TRUE, "Continue")

\* C3: break_with(b, v) returns Break(v), with the very v passed in, when b
\* is true, and Continue(()) when b is false.
C3_break_with ==
    Called("break_with") =>
        /\ cond => flow.tag = "Break" /\ flow.val = arg
        /\ ~cond => flow = Continue(Unit)

C3_witness ==
    /\ Called("break_with") /\ cond /\ arg = MaxVal /\ flow = Break(MaxVal)
    /\ Earlier("break_with", FALSE, "Continue")

\* C4: continue_or(b, v) returns Continue(()) when b is true, and Break(v),
\* with the very v passed in, when b is false.
C4_continue_or ==
    Called("continue_or") =>
        /\ cond => flow = Continue(Unit)
        /\ ~cond => flow.tag = "Break" /\ flow.val = arg

C4_witness ==
    /\ Called("continue_or") /\ ~cond /\ arg = MaxVal /\ flow = Break(MaxVal)
    /\ Earlier("continue_or", TRUE, "Continue")

\* C5: break_lazy(b, producer) with a counting producer: when b is true the
\* producer has run exactly once when the call returns and the outcome is
\* Break of the value it produced; when b is false the producer has not run,
\* the counter is unchanged and the outcome is Continue(()).
C5_break_lazy ==
    Called("break_lazy") =>
        /\ cond => counter = before + 1 /\ flow = Break(arg)
        /\ ~cond => counter = before /\ flow = Continue(Unit)

C5_witness ==
    /\ Called("break_lazy") /\ pc = "try" /\ cond
    /\ before = 1 /\ counter = 2 /\ flow = Break(arg)
    /\ Earlier("break_lazy", FALSE, "Continue")

\* C6: continue_or_else(b, producer) with a counting producer: when b is
\* false the producer has run exactly once when the call returns and the
\* outcome is Break of the value it produced; when b is true the producer has
\* not run, the counter is unchanged and the outcome is Continue(()).
C6_continue_or_else ==
    Called("continue_or_else") =>
        /\ ~cond => counter = before + 1 /\ flow = Break(arg)
        /\ cond => counter = before /\ flow = Continue(Unit)

C6_witness ==
    /\ Called("continue_or_else") /\ pc = "try" /\ ~cond
    /\ before = 1 /\ counter = 2 /\ flow = Break(arg)
    /\ Earlier("continue_or_else", TRUE, "Continue")

\* C7: in an enclosing function that applies `?` to the outcome of any of
\* the six operations: on Break(p) the statements after the guard are never
\* reached (`continued` stays false) and the function returns Break(p); on
\* Continue they run and the function returns what they yield.
C7_propagation ==
    /\ pc = "rest" => flow.tag = "Continue"
    /\ flow.tag = "Break" => ~continued
    /\ pc = "done" /\ flow.tag = "Break" => ret = flow
    /\ pc = "done" /\ flow.tag = "Continue" => continued /\ ret = tail

C7_witness ==
    /\ pc = "done" /\ op = "continue" /\ ~cond
    /\ flow = Break(Unit) /\ ret = flow /\ tail # flow /\ ~continued

\* C8: for break_with, break_lazy, continue_or and continue_or_else, two
\* calls of the same operation with the same b return the same variant,
\* whatever the two payloads (or the values the producers yield) are.
PayloadOps == {"break_with", "break_lazy", "continue_or", "continue_or_else"}

C8_variant_ignores_payload ==
    (pc # "idle" /\ op \in PayloadOps /\ prev.op = op /\ prev.cond = cond)
        => flow.tag = prev.tag

C8_witness ==
    /\ Called("break_with") /\ cond /\ flow.tag = "Break"
    /\ Earlier("break_with", TRUE, "Break") /\ prev.arg # arg

\* C9: the break family and the continue family are opposites under
\* negation of the condition: break(b) = continue(~b), break_with(b, v) =
\* continue_or(~b, v) and break_lazy(b, f) = continue_or_else(~b, f), the
\* number of invocations of f included.
C9_opposites ==
    /\ Called("break") => flow = continue(~cond)
    /\ Called("continue") => flow = break(~cond)
    /\ Called("break_with") => flow = continue_or(~cond, arg)
    /\ Called("continue_or") => flow = break_with(~cond, arg)
    /\ Called("break_lazy") =>
          [flow |-> flow, counter |-> counter] =
              continue_or_else(~cond, Producer(arg), before)
    /\ Called("continue_or_else") =>
          [flow |-> flow, counter |-> counter] =
              break_lazy(~cond, Producer(arg), before)

C9_witness ==
    /\ Called("break_lazy") /\ cond /\ counter = before + 1
    /\ flow = Break(arg)
    /\ Earlier("continue_or_else", FALSE, "Break")

\* C10: with a producer that always yields v, the lazy forms return the
\* outcome of the eager forms: break_lazy(b, producer) = break_with(b, v) and
\* continue_or_else(b, producer) = continue_or(b, v); on the Continue branch
\* the lazy form has not run the producer.
C10_lazy_equals_eager ==
    /\ Called("break_lazy") =>
          /\ flow = break_with(cond, arg)
          /\ flow.tag = "Continue" => counter = before
    /\ Called("continue_or_else") =>
          /\ flow = continue_or(cond, arg)
          /\ flow.tag = "Continue" => counter = before

C10_witness ==
    /\ Called("continue_or_else") /\ ~cond /\ flow = Break(arg)
    /\ arg = MaxVal
    /\ Earlier("break_lazy", TRUE, "Break")
====
